---- MODULE Spec2Model ----
(***************************************************************************)
(* A model of ruuvi_bridge (src/main.rs): the frame extractor of           *)
(* arduino_bridge, the checksum gate and decoder of got_message, the       *)
(* sensor registry with its sweep task, and the metric families read by    *)
(* serve_req.                                                              *)
(*                                                                         *)
(* Bytes are integers 0..255.  Instants are integers (seconds).  A gauge   *)
(* value is kept as the integer numerator of the f64 the code stores:      *)
(* temperature in 1/1000 degree, humidity in 1/10000 percent, pressure in  *)
(* 1/1000 kPa, battery in 1/1000 V (f64 rounding is not modelled).         *)
(***************************************************************************)
EXTENDS Integers, Sequences, FiniteSets, TLC

VARIABLES
    stream,            \* the bytes the opened device file will deliver
    pos,               \* number of bytes of stream already returned by read
    avail,             \* bytes of the current chunk not yet scanned
    ipc,               \* position of the ingestion task
    state, msg, n,     \* arduino_bridge locals
    mac, expiry,       \* got_message locals
    sensors,           \* the registry: HashMap<[u8; 6], Instant>
    lock,              \* owner of the registry mutex
    ROOM_TEMPERATURE, HUMIDITY, PRESSURE, BATTERY,   \* label -> value
    time,              \* the monotonic clock read by Instant::now()
    spc, now, expired, \* position and locals of the sweep task
    rpc, gathered, observed,   \* serve_req: families gathered so far
    input,             \* history: how the stream was made up
    calls,             \* history: the buffers handed to got_message
    touches,           \* history: identity -> the instants its touches read
    disturbed,         \* history: identities got_message worked on since the
                       \* last sweep began
    swept,             \* history: identities the sweep has cleared
    removed,           \* history: the entries the sweep's retain removed
    backoff,           \* seconds the ingestion loop sleeps before it retries
    ticks, nsweeps, nscrapes   \* counters that bound the model

vars == <<stream, pos, avail, ipc, state, msg, n, mac, expiry, sensors, lock,
          ROOM_TEMPERATURE, HUMIDITY, PRESSURE, BATTERY, time, spc, now,
          expired, rpc, gathered, observed, input, calls, touches, disturbed, swept,
          removed, backoff,
          ticks, nsweeps, nscrapes>>

(***************************************************************************)
(* Bounds of the model.                                                    *)
(***************************************************************************)
MaxGarbage == 2        \* longest garbage run around a frame
MaxTicks == 2          \* clock advances in one behaviour
MaxSweeps == 1         \* sweep rounds
MaxScrapes == 1        \* metric reads
MaxChunk == 2          \* short reads return up to this many bytes

(***************************************************************************)
(* Program constants.                                                      *)
(***************************************************************************)
OpenByte == 123        \* '{'
CloseByte == 125       \* '}'
MsgCap == 500
TTL == 300
ChunkSize == 1024
MinLen == 30
BackoffSecs == 10

(***************************************************************************)
(* Bit operations on naturals.                                             *)
(***************************************************************************)
RECURSIVE BitXor(_, _)
BitXor(a, b) ==
    IF a = 0 THEN b
    ELSE IF b = 0 THEN a
    ELSE (((a % 2) + (b % 2)) % 2) + 2 * BitXor(a \div 2, b \div 2)

RECURSIVE BitOr(_, _)
BitOr(a, b) ==
    IF a = 0 THEN b
    ELSE IF b = 0 THEN a
    ELSE (IF a % 2 = 1 \/ b % 2 = 1 THEN 1 ELSE 0) + 2 * BitOr(a \div 2, b \div 2)

\* n << 4 | nn on u8 operands: the shift drops the bits above bit 7.
PackNibbles(hi, lo) == BitOr((hi * 16) % 256, lo)

(***************************************************************************)
(* nibble: None is modelled as -1.                                         *)
(***************************************************************************)
None == -1

nibble(b) ==
    IF b >= 48 /\ b <= 57 THEN b - 48
    ELSE IF b >= 65 /\ b <= 79 THEN b - 55
    ELSE IF b >= 97 /\ b <= 111 THEN b - 87
    ELSE None

(***************************************************************************)
(* CRC-32 (IEEE 802.3, reflected, polynomial 0xEDB88320) as computed by    *)
(* crc32fast::Hasher.  A u32 is kept as the pair <<high 16 bits, low 16    *)
(* bits>>, since the checker's integers are 32-bit signed.                 *)
(***************************************************************************)
CrcPoly == <<60856, 33568>>

U32Xor(a, b) == <<BitXor(a[1], b[1]), BitXor(a[2], b[2])>>
U32Shr1(c) == <<c[1] \div 2, (c[1] % 2) * 32768 + (c[2] \div 2)>>

\* the bytes of a u32, least significant first, and back
U32Bytes(c) == <<c[2] % 256, c[2] \div 256, c[1] % 256, c[1] \div 256>>
U32OfBytes(r) == <<r[4] * 256 + r[3], r[2] * 256 + r[1]>>

RECURSIVE CrcShift(_, _)
CrcShift(c, k) ==
    IF k = 0 THEN c
    ELSE CrcShift(IF c[2] % 2 = 1 THEN U32Xor(U32Shr1(c), CrcPoly) ELSE U32Shr1(c),
                  k - 1)

\* the byte-wise table of the reflected polynomial
CrcTable == [i \in 0..255 |-> U32Bytes(CrcShift(<<0, i>>, 8))]

Xor8 == [a \in 0..255 |-> [b \in 0..255 |-> BitXor(a, b)]]

\* one byte into the register r (bytes, least significant first):
\* table[(r ^ b) & 0xff] ^ (r >> 8)
CrcByte(r, b) ==
    LET t == CrcTable[Xor8[r[1]][b]]
    IN  <<Xor8[t[1]][r[2]], Xor8[t[2]][r[3]], Xor8[t[3]][r[4]], t[4]>>

\* the bytes lo..hi folded into r0, left to right (split in halves, and the
\* register bound to its value on entry, to keep the evaluation shallow and
\* to evaluate it once)
RECURSIVE CrcUpdate(_, _, _, _)
CrcUpdate(r0, bytes, lo, hi) ==
    CHOOSE v \in {(IF lo > hi THEN r
                   ELSE IF lo = hi THEN CrcByte(r, bytes[lo])
                   ELSE CrcUpdate(CrcUpdate(r, bytes, lo, (lo + hi) \div 2),
                                  bytes, ((lo + hi) \div 2) + 1, hi)) : r \in {r0}} :
        TRUE

\* Hasher::new(), update(bytes), finalize(): the register starts at and is
\* finally xor-ed with 0xFFFFFFFF
CrcFinal(r) == <<Xor8[r[1]][255], Xor8[r[2]][255], Xor8[r[3]][255], Xor8[r[4]][255]>>

crc32(bytes) ==
    U32OfBytes(CrcFinal(CrcUpdate(<<255, 255, 255, 255>>, bytes, 1, Len(bytes))))

\* u32::from_be_bytes
u32_from_be_bytes(b) == <<b[1] * 256 + b[2], b[3] * 256 + b[4]>>
\* u16::from_be_bytes
u16_from_be_bytes(b) == b[1] * 256 + b[2]
\* i16::from_be_bytes: two's complement
i16_from_be_bytes(b) ==
    IF b[1] >= 128 THEN b[1] * 256 + b[2] - 65536 ELSE b[1] * 256 + b[2]
\* the four bytes of a u32, most significant first
u32_to_be_bytes(v) == <<v[1] \div 256, v[1] % 256, v[2] \div 256, v[2] % 256>>

(***************************************************************************)
(* mac_string: "{:x}" of each byte (lowercase, no zero padding), joined by *)
(* colons.  A string is a sequence of one-character strings.               *)
(***************************************************************************)
HexDigits == <<"0", "1", "2", "3", "4", "5", "6", "7",
               "8", "9", "a", "b", "c", "d", "e", "f">>

LowerHex(b) ==
    IF b < 16 THEN <<HexDigits[b + 1]>>
    ELSE <<HexDigits[(b \div 16) + 1], HexDigits[(b % 16) + 1]>>

mac_string(m) ==
    LowerHex(m[1]) \o <<":">> \o LowerHex(m[2]) \o <<":">> \o LowerHex(m[3])
    \o <<":">> \o LowerHex(m[4]) \o <<":">> \o LowerHex(m[5]) \o <<":">>
    \o LowerHex(m[6])

(***************************************************************************)
(* Gauge families: with_label_values(l).set(v) and remove_label_values(l). *)
(***************************************************************************)
SetGauge(g, l, v) == [x \in DOMAIN g \cup {l} |-> IF x = l THEN v ELSE g[x]]
\* a removal that leaves the label in place
RemoveGaugeKept(g, l) == g

RemoveGauge(g, l) == [x \in DOMAIN g \ {l} |-> g[x]]

\* msg[a..b] of the source: zero-based, b excluded
Slice(s, a, b) == SubSeq(s, a + 1, b)

NoAddress == <<255, 255, 255, 255, 255, 255>>
NoMac == <<>>

(***************************************************************************)
(* The checks at the head of got_message (lines 40-59): the identity of an *)
(* accepted buffer, or the reason it is dropped.                           *)
(***************************************************************************)
ChecksumOk(m) ==
    /\ Len(m) >= 4
    /\ u32_from_be_bytes(Slice(m, 0, 4)) = crc32(Slice(m, 4, Len(m)))

\* the format check without the tag comparison
RecognizedAnyTag(m) == Len(m) >= MinLen

Recognized(m) ==
    Len(m) >= MinLen /\ m[5] = 153 /\ m[6] = 4 /\ m[7] = 5

\* the checks without the rejection of the all-ones identity
AcceptedAnyIdentity(m) == ChecksumOk(m) /\ Recognized(m)

\* the checks without the comparison of the checksum
AcceptedUnchecked(m) ==
    /\ Len(m) >= 4
    /\ Recognized(m)
    /\ Slice(m, 24, 30) # NoAddress

Accepted(m) ==
    /\ ChecksumOk(m)
    /\ Recognized(m)
    /\ Slice(m, 24, 30) # NoAddress

(***************************************************************************)
(* The four quantities of an accepted buffer: the raw field, whether it is *)
(* the absent sentinel, and the value the gauge is set to.                 *)
(***************************************************************************)
temp_raw(m) == i16_from_be_bytes(Slice(m, 7, 9))
humidity_raw(m) == u16_from_be_bytes(Slice(m, 9, 11))
pressure_raw(m) == u16_from_be_bytes(Slice(m, 11, 13))
power_raw(m) == u16_from_be_bytes(Slice(m, 19, 21))

TempAbsent(m) == temp_raw(m) = -32768
\* the humidity taken for absent also when the temperature is
HumidityAbsentWithTemp(m) == humidity_raw(m) = 65535 \/ TempAbsent(m)

HumidityAbsent(m) == humidity_raw(m) = 65535
PressureAbsent(m) == pressure_raw(m) = 65535
BatteryAbsent(m) == power_raw(m) \div 32 = 2047

TempValue(m) == temp_raw(m) * 5                  \* raw * 0.005, in 1/1000
HumidityValue(m) == humidity_raw(m) * 25         \* raw * 0.0025, in 1/10000
PressureValue(m) == pressure_raw(m) + 50000      \* raw / 1000 + 50, in 1/1000
BatteryValue(m) == (power_raw(m) \div 32) + 1600 \* (raw >> 5) / 1000 + 1.6

(***************************************************************************)
(* arduino_bridge: one byte through the ReadState machine (lines 166-222). *)
(* The result is the new state, buffer and stored nibble, and whether      *)
(* got_message is called with the buffer.                                  *)
(***************************************************************************)
Goto(st, m, nn) == [state |-> st, msg |-> m, n |-> nn, emit |-> FALSE]

\* Nibble2 without the length cap
Nibble2PushNoCap(m, nn, lo) == Goto("Nibble1", Append(m, PackNibbles(nn, lo)), nn)

\* Nibble2 with the cap tested as msg.len() <= 500
Nibble2PushInclusive(m, nn, lo) ==
    LET pushed == Append(m, PackNibbles(nn, lo))
    IN  Goto(IF Len(pushed) <= MsgCap THEN "Nibble1" ELSE "Interstitial", pushed, nn)

Nibble2Push(m, nn, lo) ==
    LET pushed == Append(m, PackNibbles(nn, lo))
    IN  Goto(IF Len(pushed) < MsgCap THEN "Nibble1" ELSE "Interstitial", pushed, nn)

Transition(st, m, nn, b) ==
    CASE st = "Interstitial" ->
            Goto(IF b = OpenByte THEN "Open1" ELSE "Interstitial", m, nn)
      [] st = "Open1" ->
            Goto(IF b = OpenByte THEN "Open2" ELSE "Interstitial", m, nn)
      [] st = "Open2" ->
            IF b = OpenByte THEN Goto("Nibble1", <<>>, nn)
            ELSE Goto("Interstitial", m, nn)
      [] st = "Nibble1" ->
            IF nibble(b) # None THEN Goto("Nibble2", m, nibble(b))
            ELSE IF b = CloseByte THEN Goto("Close1", m, nn)
            ELSE Goto("Interstitial", m, nn)
      [] st = "Nibble2" ->
            IF nibble(b) # None THEN Nibble2Push(m, nn, nibble(b))
            ELSE Goto("Interstitial", m, nn)
      [] st = "Close1" ->
            Goto(IF b = CloseByte THEN "Close2" ELSE "Interstitial", m, nn)
      [] st = "Close2" ->
            IF b = CloseByte THEN [state |-> "Close2", msg |-> m, n |-> nn, emit |-> TRUE]
            ELSE Goto("Interstitial", m, nn)

(***************************************************************************)
(* The ingestion task.                                                     *)
(***************************************************************************)
gmVars == <<mac, expiry>>
regVars == <<sensors, lock, touches, disturbed>>
metricVars == <<ROOM_TEMPERATURE, HUMIDITY, PRESSURE, BATTERY>>
sweepVars == <<spc, now, expired, swept, removed, nsweeps>>
scrapeVars == <<rpc, gathered, observed, nscrapes>>
clockVars == <<time, ticks>>
inputVars == <<stream, pos, avail, input>>
scanVars == <<state, msg, n>>

Min(a, b) == IF a < b THEN a ELSE b

\* the counts a read of the device may return when rem bytes are left
ReadCounts(rem) ==
    {c \in 1..Min(rem, ChunkSize) : c <= MaxChunk \/ c = Min(rem, ChunkSize)}

\* a read after which the scan starts over in Interstitial, as if state were
\* a local of the loop body
ReadForgetting ==
    /\ ipc = "scan" /\ avail = 0
    /\ IF pos = Len(stream)
       THEN /\ ipc' = "eof"
            /\ UNCHANGED <<pos, avail>>
       ELSE /\ \E count \in ReadCounts(Len(stream) - pos) :
                  /\ pos' = pos + count
                  /\ avail' = count
            /\ ipc' = ipc
    /\ state' = "Interstitial"
    /\ UNCHANGED <<stream, input, msg, n, gmVars, regVars, metricVars,
                   sweepVars, scrapeVars, clockVars, calls, backoff>>

\* input.read(&mut buffer) (lines 160-164): a chunk, or 0 at end of stream
Read ==
    /\ ipc = "scan" /\ avail = 0
    /\ IF pos = Len(stream)
       THEN /\ ipc' = "eof"
            /\ UNCHANGED <<pos, avail>>
       ELSE /\ \E count \in ReadCounts(Len(stream) - pos) :
                  /\ pos' = pos + count
                  /\ avail' = count
            /\ ipc' = ipc
    /\ UNCHANGED <<stream, input, scanVars, gmVars, regVars, metricVars,
                   sweepVars, scrapeVars, clockVars, calls, backoff>>

\* one iteration of the for loop over the chunk (lines 165-223)
Scan ==
    /\ ipc = "scan" /\ avail > 0
    /\ LET r == Transition(state, msg, n, stream[pos - avail + 1])
       IN  /\ state' = r.state
           /\ msg' = r.msg
           /\ n' = r.n
           /\ ipc' = IF r.emit THEN "check" ELSE "scan"
           /\ calls' = IF r.emit THEN Append(calls, r.msg) ELSE calls
    /\ avail' = avail - 1
    /\ UNCHANGED <<stream, pos, input, gmVars, regVars, metricVars, sweepVars,
                   scrapeVars, clockVars, backoff>>

\* the return without the reset of the state
ReturnKeepState ==
    /\ ipc' = "scan"
    /\ state' = state

\* got_message returns to line 220
Return ==
    /\ ipc' = "scan"
    /\ state' = "Interstitial"

\* the instant t added to the history of identity k
Touched(h, k, t) ==
    [x \in DOMAIN h \cup {k} |->
        IF x = k THEN (IF k \in DOMAIN h THEN Append(h[k], t) ELSE <<t>>) ELSE h[x]]

\* got_message, lines 40-61: the checksum gate, the format and identity
\* checks, and the deadline read from the clock
GmCheck ==
    /\ ipc = "check"
    /\ IF Accepted(msg)
       THEN /\ mac' = Slice(msg, 24, 30)
            /\ expiry' = time + TTL
            /\ touches' = Touched(touches, Slice(msg, 24, 30), time)
            /\ disturbed' = disturbed \cup {Slice(msg, 24, 30)}
            /\ ipc' = "lock"
            /\ state' = state
       ELSE /\ Return
            /\ UNCHANGED <<gmVars, touches, disturbed>>
    /\ UNCHANGED <<inputVars, msg, n, sensors, lock, metricVars, sweepVars,
                   scrapeVars, clockVars, calls, backoff>>

\* sensors.lock().await (lines 62-64)
GmLock ==
    /\ ipc = "lock"
    /\ lock = "free"
    /\ lock' = "ingest"
    /\ ipc' = "touch"
    /\ UNCHANGED <<inputVars, scanVars, gmVars, sensors, touches, disturbed, metricVars,
                   sweepVars, scrapeVars, clockVars, calls, backoff>>

\* the touch left out
TouchNothing(reg, k, e) == reg

\* or_insert alone: an existing entry keeps its deadline
TouchInsertOnly(reg, k, e) ==
    [x \in DOMAIN reg \cup {k} |-> IF x \in DOMAIN reg THEN reg[x] ELSE e]

\* .entry(mac).and_modify(|e| *e = expiry).or_insert(expiry)
Touch(reg, k, e) == [x \in DOMAIN reg \cup {k} |-> IF x = k THEN e ELSE reg[x]]

\* the touch with the guard kept while the metrics are updated
GmTouchHolding ==
    /\ ipc = "touch"
    /\ sensors' = Touch(sensors, mac, expiry)
    /\ lock' = lock
    /\ ipc' = "temp"
    /\ UNCHANGED <<inputVars, scanVars, gmVars, touches, disturbed, metricVars,
                   sweepVars, scrapeVars, clockVars, calls, backoff>>

\* lines 65-67, and the guard dropped at the end of the statement
GmTouch ==
    /\ ipc = "touch"
    /\ sensors' = Touch(sensors, mac, expiry)
    /\ lock' = "free"
    /\ ipc' = "temp"
    /\ UNCHANGED <<inputVars, scanVars, gmVars, touches, disturbed, metricVars,
                   sweepVars, scrapeVars, clockVars, calls, backoff>>

\* one quantity: remove_label_values when absent, set otherwise
Update(g, absent, value) ==
    IF absent THEN RemoveGauge(g, mac_string(mac))
    ELSE SetGauge(g, mac_string(mac), value)

\* lines 71-78
GmTemp ==
    /\ ipc = "temp"
    /\ ROOM_TEMPERATURE' = Update(ROOM_TEMPERATURE, TempAbsent(msg), TempValue(msg))
    /\ ipc' = "hum"
    /\ UNCHANGED <<inputVars, scanVars, gmVars, regVars, HUMIDITY, PRESSURE,
                   BATTERY, sweepVars, scrapeVars, clockVars, calls, backoff>>

\* lines 79-86
GmHumidity ==
    /\ ipc = "hum"
    /\ HUMIDITY' = Update(HUMIDITY, HumidityAbsent(msg), HumidityValue(msg))
    /\ ipc' = "pres"
    /\ UNCHANGED <<inputVars, scanVars, gmVars, regVars, ROOM_TEMPERATURE,
                   PRESSURE, BATTERY, sweepVars, scrapeVars, clockVars, calls, backoff>>

\* lines 87-94
GmPressure ==
    /\ ipc = "pres"
    /\ PRESSURE' = Update(PRESSURE, PressureAbsent(msg), PressureValue(msg))
    /\ ipc' = "bat"
    /\ UNCHANGED <<inputVars, scanVars, gmVars, regVars, ROOM_TEMPERATURE,
                   HUMIDITY, BATTERY, sweepVars, scrapeVars, clockVars, calls, backoff>>

\* lines 95-103, and the return
GmBattery ==
    /\ ipc = "bat"
    /\ BATTERY' = Update(BATTERY, BatteryAbsent(msg), BatteryValue(msg))
    /\ Return
    /\ UNCHANGED <<inputVars, msg, n, gmVars, regVars, ROOM_TEMPERATURE,
                   HUMIDITY, PRESSURE, sweepVars, scrapeVars, clockVars, calls, backoff>>

got_message == GmCheck \/ GmLock \/ GmTouch \/ GmTemp \/ GmHumidity \/ GmPressure \/ GmBattery

(***************************************************************************)
(* The sweep task (lines 281-303).                                         *)
(***************************************************************************)
Empty == <<>>

\* the ingestion task is past the checks of got_message
InGotMessage == ipc \in {"lock", "touch", "temp", "hum", "pres", "bat"}

\* interval.tick().await; let now = Instant::now() (lines 284-285)
SweepTick ==
    /\ spc = "tick"
    /\ nsweeps < MaxSweeps
    /\ now' = time
    /\ swept' = {}
    /\ removed' = Empty
    /\ disturbed' = IF InGotMessage THEN {mac} ELSE {}
    /\ spc' = "lock1"
    /\ UNCHANGED <<inputVars, ipc, scanVars, gmVars, sensors, lock, touches,
                   metricVars, expired, nsweeps, scrapeVars, clockVars, calls, backoff>>

\* sensors.lock().await (lines 286-288)
SweepLock1 ==
    /\ spc = "lock1"
    /\ lock = "free"
    /\ lock' = "sweep"
    /\ spc' = "collect"
    /\ UNCHANGED <<inputVars, ipc, scanVars, gmVars, sensors, touches, disturbed, metricVars,
                   now, expired, swept, removed, nsweeps, scrapeVars, clockVars,
                   calls, backoff>>

\* the identities whose deadline is before t (line 290)
Expired(reg, t) == {k \in DOMAIN reg : reg[k] < t}

\* the orders in which a HashMap may iterate over the keys ks
Orders(ks) ==
    {q \in [1..Cardinality(ks) -> ks] : \A i, j \in DOMAIN q : i # j => q[i] # q[j]}

\* iter().filter().map().collect() (lines 289-292), and the guard dropped
SweepCollect ==
    /\ spc = "collect"
    /\ \E q \in Orders(Expired(sensors, now)) : expired' = q
    /\ lock' = "free"
    /\ spc' = IF Expired(sensors, now) = {} THEN "lock2" ELSE "temp"
    /\ UNCHANGED <<inputVars, ipc, scanVars, gmVars, sensors, touches, disturbed, metricVars,
                   now, swept, removed, nsweeps, scrapeVars, clockVars, calls, backoff>>

\* line 296
SweepTemp ==
    /\ spc = "temp"
    /\ ROOM_TEMPERATURE' = RemoveGauge(ROOM_TEMPERATURE, mac_string(Head(expired)))
    /\ spc' = "hum"
    /\ UNCHANGED <<inputVars, ipc, scanVars, gmVars, regVars, HUMIDITY, PRESSURE,
                   BATTERY, now, expired, swept, removed, nsweeps, scrapeVars,
                   clockVars, calls, backoff>>

\* line 297
SweepHumidity ==
    /\ spc = "hum"
    /\ HUMIDITY' = RemoveGauge(HUMIDITY, mac_string(Head(expired)))
    /\ spc' = "pres"
    /\ UNCHANGED <<inputVars, ipc, scanVars, gmVars, regVars, ROOM_TEMPERATURE,
                   PRESSURE, BATTERY, now, expired, swept, removed, nsweeps,
                   scrapeVars, clockVars, calls, backoff>>

\* line 298
SweepPressure ==
    /\ spc = "pres"
    /\ PRESSURE' = RemoveGauge(PRESSURE, mac_string(Head(expired)))
    /\ spc' = "bat"
    /\ UNCHANGED <<inputVars, ipc, scanVars, gmVars, regVars, ROOM_TEMPERATURE,
                   HUMIDITY, BATTERY, now, expired, swept, removed, nsweeps,
                   scrapeVars, clockVars, calls, backoff>>

\* line 299, and the next iteration of the for loop (line 293)
SweepBattery ==
    /\ spc = "bat"
    /\ BATTERY' = RemoveGauge(BATTERY, mac_string(Head(expired)))
    /\ swept' = swept \cup {Head(expired)}
    /\ expired' = Tail(expired)
    /\ spc' = IF Tail(expired) = <<>> THEN "lock2" ELSE "temp"
    /\ UNCHANGED <<inputVars, ipc, scanVars, gmVars, regVars, ROOM_TEMPERATURE,
                   HUMIDITY, PRESSURE, now, removed, nsweeps, scrapeVars,
                   clockVars, calls, backoff>>

\* sensors.lock().await (line 301)
SweepLock2 ==
    /\ spc = "lock2"
    /\ lock = "free"
    /\ lock' = "sweep"
    /\ spc' = "retain"
    /\ UNCHANGED <<inputVars, ipc, scanVars, gmVars, sensors, touches, disturbed, metricVars,
                   now, expired, swept, removed, nsweeps, scrapeVars, clockVars,
                   calls, backoff>>

\* retain with a strict comparison: an entry due exactly now is dropped
RetainStrict(reg, t) == [k \in {x \in DOMAIN reg : reg[x] > t} |-> reg[k]]

\* retain(|_, &mut expiry| expiry >= now)
Retain(reg, t) == [k \in {x \in DOMAIN reg : reg[x] >= t} |-> reg[k]]

\* line 301, and the guard dropped
SweepRetain ==
    /\ spc = "retain"
    /\ sensors' = Retain(sensors, now)
    /\ removed' = [k \in DOMAIN sensors \ DOMAIN Retain(sensors, now) |-> sensors[k]]
    /\ lock' = "free"
    /\ spc' = "tick"
    /\ nsweeps' = nsweeps + 1
    /\ UNCHANGED <<inputVars, ipc, scanVars, gmVars, touches, disturbed, metricVars,
                   now, expired, swept, scrapeVars, clockVars, calls, backoff>>

sweep == SweepTick \/ SweepLock1 \/ SweepCollect \/ SweepTemp \/ SweepHumidity
         \/ SweepPressure \/ SweepBattery \/ SweepLock2 \/ SweepRetain

(***************************************************************************)
(* serve_req (lines 106-120): prometheus::gather() collects the registered *)
(* families one after another, each under its own lock.                    *)
(***************************************************************************)
Families == {"room_temperature", "humidity", "air_pressure", "sensor_battery"}

Family(f) ==
    CASE f = "room_temperature" -> ROOM_TEMPERATURE
      [] f = "humidity" -> HUMIDITY
      [] f = "air_pressure" -> PRESSURE
      [] f = "sensor_battery" -> BATTERY

NothingObserved == [f \in Families |-> <<>>]

ServeStart ==
    /\ rpc = "idle"
    /\ nscrapes < MaxScrapes
    /\ rpc' = "gather"
    /\ gathered' = {}
    /\ observed' = NothingObserved
    /\ UNCHANGED <<inputVars, ipc, scanVars, gmVars, regVars, metricVars, sweepVars,
                   nscrapes, clockVars, calls, backoff>>

ServeGather ==
    /\ rpc = "gather"
    /\ \E f \in Families \ gathered :
          /\ observed' = [observed EXCEPT ![f] = Family(f)]
          /\ gathered' = gathered \cup {f}
    /\ UNCHANGED <<inputVars, ipc, scanVars, gmVars, regVars, metricVars, sweepVars,
                   rpc, nscrapes, clockVars, calls, backoff>>

ServeRespond ==
    /\ rpc = "gather"
    /\ gathered = Families
    /\ rpc' = "idle"
    /\ nscrapes' = nscrapes + 1
    /\ UNCHANGED <<inputVars, ipc, scanVars, gmVars, regVars, metricVars, sweepVars,
                   gathered, observed, clockVars, calls, backoff>>

serve_req == ServeStart \/ ServeGather \/ ServeRespond

(***************************************************************************)
(* The clock.                                                              *)
(***************************************************************************)
TickSteps == {1, TTL}

Tick ==
    /\ ticks < MaxTicks
    /\ \E d \in TickSteps : time' = time + d
    /\ ticks' = ticks + 1
    /\ UNCHANGED <<inputVars, ipc, scanVars, gmVars, regVars, metricVars, sweepVars,
                   scrapeVars, calls, backoff>>

(***************************************************************************)
(* Inputs: candidate buffers in the layout of data format 5, with the      *)
(* checksum field in front.                                                *)
(***************************************************************************)
MacA == <<1, 2, 3, 4, 5, 6>>
MacB == <<170, 187, 12, 221, 238, 240>>

U16Bytes(v) == <<v \div 256, v % 256>>

\* tag, temperature, humidity, pressure, acceleration, power, movement
\* counter, sequence number, identity: 26 bytes
Payload(tag, t, h, p, pw, m) ==
    tag \o U16Bytes(t) \o U16Bytes(h) \o U16Bytes(p) \o <<0, 0, 0, 0, 0, 0>>
    \o U16Bytes(pw) \o <<0, 0, 0>> \o m

Format5 == <<153, 4, 5>>
Format3 == <<153, 4, 3>>

\* the checksum of the payload, big-endian, in front of it
Sealed(payload) == u32_to_be_bytes(crc32(payload)) \o payload

ReadingA == Sealed(Payload(Format5, 325, 10000, 50000, 2846, MacA))
ReadingB == Sealed(Payload(Format5, 65000, 20000, 51325, 3000, MacB))
NoAddressReading == Sealed(Payload(Format5, 325, 10000, 50000, 2846, NoAddress))
OtherFormat == Sealed(Payload(Format3, 325, 10000, 50000, 2846, MacA))
\* a payload of 25 bytes: the buffer is one byte short of the minimum
Truncated == Sealed(SubSeq(Payload(Format5, 325, 10000, 50000, 2846, MacA), 1, 25))

Messages == {ReadingA, ReadingB, NoAddressReading, OtherFormat, Truncated}

(***************************************************************************)
(* Inputs: byte streams.                                                   *)
(***************************************************************************)
UpperHex == <<48, 49, 50, 51, 52, 53, 54, 55, 56, 57, 65, 66, 67, 68, 69, 70>>

\* two hex digits per byte, high nibble first
HexOf(bytes) ==
    [i \in 1..(2 * Len(bytes)) |->
        IF i % 2 = 1 THEN UpperHex[(bytes[(i + 1) \div 2] \div 16) + 1]
        ELSE UpperHex[(bytes[i \div 2] % 16) + 1]]

\* a well-formed frame: '{{{', two hex digits per byte, '}}}'
FrameOf(bytes) ==
    <<OpenByte, OpenByte, OpenByte>> \o HexOf(bytes)
    \o <<CloseByte, CloseByte, CloseByte>>

GarbageBytes == {OpenByte, CloseByte, 120}

NoTriple(g) ==
    \A i \in 1..(Len(g) - 2) :
        ~(g[i] = g[i + 1] /\ g[i + 1] = g[i + 2] /\ g[i] \in {OpenByte, CloseByte})

Garbage ==
    {g \in UNION {[1..k -> GarbageBytes] : k \in 0..MaxGarbage} : NoTriple(g)}

Repeat(b, k) == [i \in 1..k |-> b]

ResyncPayloads == {<<>>, <<10, 191>>}

\* garbage, a well-formed frame, garbage
ResyncInputs ==
    {[kind |-> "resync", g1 |-> a, payload |-> f, g2 |-> b] :
        a \in Garbage, f \in ResyncPayloads, b \in Garbage}

\* a frame at the length cap, followed by a short frame
CapInputs ==
    {[kind |-> "cap", g1 |-> <<>>, payload |-> Repeat(167, k), g2 |-> FrameOf(<<10>>)] :
        k \in {MsgCap - 1, MsgCap, MsgCap + 1}}

\* a sensor reading on the wire
ReadingInputs ==
    {[kind |-> "reading", g1 |-> <<120>>, payload |-> ReadingA, g2 |-> <<>>]}

StreamOf(i) == i.g1 \o FrameOf(i.payload) \o i.g2

(***************************************************************************)
(* Initial states and specifications.                                      *)
(***************************************************************************)
InitTasks ==
    /\ pos = 0 /\ avail = 0
    /\ ipc = "scan"
    /\ state = "Interstitial" /\ msg = <<>> /\ n = 0
    /\ mac = NoMac /\ expiry = 0
    /\ sensors = Empty /\ lock = "free"
    /\ ROOM_TEMPERATURE = Empty /\ HUMIDITY = Empty
    /\ PRESSURE = Empty /\ BATTERY = Empty
    /\ time = 0 /\ ticks = 0
    /\ spc = "tick" /\ now = 0 /\ expired = <<>>
    /\ rpc = "idle" /\ gathered = {} /\ observed = NothingObserved
    /\ calls = <<>> /\ touches = Empty /\ disturbed = {}
    /\ swept = {} /\ removed = Empty
    /\ backoff = 0
    /\ nsweeps = 0 /\ nscrapes = 0

\* the readings of two sensors
Readings == {ReadingA, ReadingB}

\* the frames of the buffers q, one after the other on the wire
RECURSIVE Frames(_)
Frames(q) == IF q = <<>> THEN <<>> ELSE FrameOf(Head(q)) \o Frames(Tail(q))

\* the streams that hold a frame of ReadingA and then a frame of a buffer
\* of ms
AfterReadingA(ms) ==
    {[kind |-> "system", frames |-> <<ReadingA, m>>] : m \in ms}

\* the same, and the two frames in the other order
WithReadingA(ms) ==
    AfterReadingA(ms) \cup {[kind |-> "system", frames |-> <<m, ReadingA>>] : m \in ms}

\* The system: the device delivers the frames of two readings, which
\* arduino_bridge reads and scans while the sweep task runs.
Init ==
    /\ input \in AfterReadingA(Readings)
    /\ stream = Frames(input.frames)
    /\ InitTasks

Next == Read \/ Scan \/ got_message \/ sweep \/ Tick

Spec == Init /\ [][Next]_vars

\* The system with metric reads, for one reading of one sensor.
InitServe ==
    /\ input = [kind |-> "system", frames |-> <<ReadingA>>]
    /\ stream = Frames(input.frames)
    /\ InitTasks

NextServe == Read \/ Scan \/ got_message \/ sweep \/ serve_req \/ Tick

SpecServe == InitServe /\ [][NextServe]_vars

\* The frame extractor alone, on one stream.
InitExtract ==
    /\ input \in ResyncInputs \cup CapInputs \cup ReadingInputs
    /\ stream = StreamOf(input)
    /\ InitTasks

NextExtract == Read \/ Scan \/ got_message

SpecExtract == InitExtract /\ [][NextExtract]_vars

\* The decoder alone: frames are read and scanned, with no sweep running.
\* Scenario B of the readings (one absent quantity each), and buffers the
\* checksum gate drops.
AbsentTemp == Sealed(Payload(Format5, 32768, 10000, 50000, 2846, MacA))
AbsentHumidity == Sealed(Payload(Format5, 325, 65535, 50000, 2846, MacB))
AbsentPressure == Sealed(Payload(Format5, 325, 10000, 65535, 2846, MacA))
AbsentBattery == Sealed(Payload(Format5, 325, 10000, 50000, 65509, MacB))
\* under 4 bytes
Short == <<1, 2, 3>>
\* the empty payload with its checksum
ExactlyFour == Sealed(<<>>)
\* ReadingA with one bit of the temperature flipped and the checksum kept
Corrupt ==
    [i \in 1..Len(ReadingA) |-> IF i = 9 THEN BitXor(ReadingA[i], 1) ELSE ReadingA[i]]

DecodeMessages ==
    {ReadingA, AbsentTemp, AbsentHumidity, AbsentPressure, AbsentBattery,
     Short, ExactlyFour, Corrupt}

InitDecode ==
    /\ input \in WithReadingA(DecodeMessages)
    /\ stream = Frames(input.frames)
    /\ InitTasks

NextDecode == Read \/ Scan \/ got_message \/ Tick

SpecDecode == InitDecode /\ [][NextDecode]_vars

\* got_message on readings and on buffers that one of its checks rejects
InitFormat ==
    /\ input \in WithReadingA(Messages)
    /\ stream = Frames(input.frames)
    /\ InitTasks

SpecFormat == InitFormat /\ [][NextDecode]_vars

(***************************************************************************)
(* The ingestion loop of main (lines 247-280): find the device, run        *)
(* arduino_bridge on it, sleep, again.  A stream here holds only frames    *)
(* that got_message drops at its checks, so that GmCheck is all of         *)
(* got_message; calls is the history of the stream opened last.            *)
(***************************************************************************)
IngestStreams == {<<>>, <<120>>, FrameOf(<<>>), FrameOf(Short)}

\* tokio::time::sleep(Duration::from_secs(10)) begins (line 278)
Sleep ==
    /\ ipc' = "sleep"
    /\ backoff' = BackoffSecs

\* lines 249-277: the scan of /sys/class/tty finds a device, or finds none
\* or fails
Discover ==
    /\ ipc = "discover"
    /\ \/ ipc' = "open" /\ backoff' = backoff
       \/ Sleep
    /\ UNCHANGED <<inputVars, scanVars, gmVars, regVars, metricVars, sweepVars,
                   scrapeVars, clockVars, calls>>

\* File::open(path).await? and the locals of arduino_bridge (lines 155-158),
\* or the error returned to line 272
Open ==
    /\ ipc = "open"
    /\ \/ /\ \E s \in IngestStreams :
                /\ stream' = s
                /\ input' = [kind |-> "ingest", stream |-> s]
          /\ pos' = 0 /\ avail' = 0
          /\ state' = "Interstitial" /\ msg' = <<>> /\ n' = 0
          /\ calls' = <<>>
          /\ ipc' = "scan" /\ backoff' = backoff
       \/ /\ Sleep
          /\ UNCHANGED <<inputVars, scanVars, calls>>
    /\ UNCHANGED <<gmVars, regVars, metricVars, sweepVars, scrapeVars, clockVars>>

\* input.read(&mut buffer).await? fails (line 161): the error is returned to
\* line 272
ReadFail ==
    /\ ipc = "scan" /\ avail = 0
    /\ Sleep
    /\ UNCHANGED <<inputVars, scanVars, gmVars, regVars, metricVars, sweepVars,
                   scrapeVars, clockVars, calls>>

\* the loop of arduino_bridge left as if the ingestion loop ended with it
LeaveExit ==
    /\ ipc = "eof"
    /\ ipc' = "exit"
    /\ UNCHANGED <<inputVars, scanVars, gmVars, regVars, metricVars, sweepVars,
                   scrapeVars, clockVars, calls, backoff>>

\* count == 0: break, Ok(()) (lines 162-164, 225), back at line 272
Leave ==
    /\ ipc = "eof"
    /\ Sleep
    /\ UNCHANGED <<inputVars, scanVars, gmVars, regVars, metricVars, sweepVars,
                   scrapeVars, clockVars, calls>>

\* the sleep is over: the next iteration of the loop (lines 278-279, 248)
Wake ==
    /\ ipc = "sleep"
    /\ ipc' = "discover"
    /\ backoff' = 0
    /\ UNCHANGED <<inputVars, scanVars, gmVars, regVars, metricVars, sweepVars,
                   scrapeVars, clockVars, calls>>

InitIngest ==
    /\ input = [kind |-> "ingest", stream |-> <<>>]
    /\ stream = <<>>
    /\ pos = 0 /\ avail = 0
    /\ ipc = "discover"
    /\ state = "Interstitial" /\ msg = <<>> /\ n = 0
    /\ mac = NoMac /\ expiry = 0
    /\ sensors = Empty /\ lock = "free"
    /\ ROOM_TEMPERATURE = Empty /\ HUMIDITY = Empty
    /\ PRESSURE = Empty /\ BATTERY = Empty
    /\ time = 0 /\ ticks = 0
    /\ spc = "tick" /\ now = 0 /\ expired = <<>>
    /\ rpc = "idle" /\ gathered = {} /\ observed = NothingObserved
    /\ calls = <<>> /\ touches = Empty /\ disturbed = {}
    /\ swept = {} /\ removed = Empty
    /\ backoff = 0
    /\ nsweeps = 0 /\ nscrapes = 0

NextIngest ==
    Discover \/ Open \/ Read \/ ReadFail \/ Scan \/ GmCheck \/ Leave \/ Wake

\* the runtime keeps scheduling the ingestion task, and its reads, sleeps
\* and scans of the device tree complete
SpecIngest == InitIngest /\ [][NextIngest]_vars /\ WF_vars(NextIngest)

(***************************************************************************)
(* The system with a sweep task that goes round without end (the loop at   *)
(* line 283): the counter of rounds starts over.  The stream holds two      *)
(* readings of one sensor and then ends.                                   *)
(***************************************************************************)
InitExpire ==
    /\ input = [kind |-> "system", frames |-> <<ReadingA, ReadingA>>]
    /\ stream = Frames(input.frames)
    /\ InitTasks

SweepAgain ==
    /\ spc = "tick"
    /\ nsweeps = MaxSweeps
    /\ nsweeps' = 0
    /\ UNCHANGED <<inputVars, ipc, scanVars, gmVars, regVars, metricVars, spc, now,
                   expired, swept, removed, scrapeVars, clockVars, calls,
                   backoff>>

NextExpire == Read \/ Scan \/ got_message \/ sweep \/ SweepAgain \/ Tick

\* the runtime keeps scheduling both tasks (the interval of the sweep keeps
\* ticking, a task waiting for the mutex gets it), and the clock advances
SpecExpire ==
    /\ InitExpire
    /\ [][NextExpire]_vars
    /\ WF_vars(Read \/ Scan)
    /\ WF_vars(got_message)
    /\ WF_vars(sweep \/ SweepAgain)
    /\ WF_vars(Tick)

(***************************************************************************)
(* The frame extractor on streams that also hold an aborted frame: a start *)
(* marker, the hex digits of 0xEE, and an end that aborts in Nibble1,      *)
(* Nibble2, Close1 or Close2, followed by a well-formed frame.             *)
(***************************************************************************)
AbortTails ==
    {<<120>>, <<OpenByte>>, <<69, 120>>, <<69, CloseByte>>,
     <<CloseByte, 120>>, <<CloseByte, CloseByte, 120>>}

AbortInputs ==
    {[kind |-> "abort",
      g1 |-> <<OpenByte, OpenByte, OpenByte>> \o HexOf(<<238>>) \o t,
      payload |-> <<10, 191>>,
      g2 |-> <<>>] : t \in AbortTails}

FrameInputs == ResyncInputs \cup CapInputs \cup ReadingInputs \cup AbortInputs

InitFrames ==
    /\ input \in FrameInputs
    /\ stream = StreamOf(input)
    /\ InitTasks

SpecFrames == InitFrames /\ [][NextExtract]_vars

\* arduino_bridge on a stream that one read returns whole: the loop over the
\* bytes (lines 165-223) with got_message taken as called and returned
Feed(acc, b) ==
    LET r == Transition(acc.state, acc.msg, acc.n, b)
    IN  [state |-> IF r.emit THEN "Interstitial" ELSE r.state,
         msg |-> r.msg,
         n |-> r.n,
         calls |-> IF r.emit THEN Append(acc.calls, r.msg) ELSE acc.calls]

\* the bytes lo..hi of s fed in order (split in halves, as CrcUpdate is)
RECURSIVE FeedAll(_, _, _, _)
FeedAll(a0, s, lo, hi) ==
    CHOOSE v \in {(IF lo > hi THEN a
                   ELSE IF lo = hi THEN Feed(a, s[lo])
                   ELSE FeedAll(FeedAll(a, s, lo, (lo + hi) \div 2),
                                s, ((lo + hi) \div 2) + 1, hi)) : a \in {a0}} :
        TRUE

OneChunk(s) ==
    FeedAll([state |-> "Interstitial", msg |-> <<>>, n |-> 0, calls |-> <<>>],
            s, 1, Len(s)).calls

(***************************************************************************)
(* Properties.                                                             *)
(***************************************************************************)
Decoding == InGotMessage

AllMetrics(k) == \A f \in Families : mac_string(k) \in DOMAIN Family(f)
NoMetrics(k) == \A f \in Families : mac_string(k) \notin DOMAIN Family(f)

\* the buffers of the system model whose checksum field matches
Validated == {m \in Messages : ChecksumOk(m)}
\* the label the all-ones identity would have
NoAddressLabel == mac_string(NoAddress)

Finished == ipc = "eof"
SweepDone == spc = "tick" /\ nsweeps > 0
SweepClearing == spc \in {"temp", "hum", "pres", "bat", "lock2", "retain"}
Range(q) == {q[i] : i \in DOMAIN q}
LastTouch(k) == touches[k][Len(touches[k])]

\* C1: for a stream made of garbage, a well-formed frame and garbage (no
\* marker triple inside either garbage), got_message is called exactly once,
\* with the payload of the frame, also when the leading garbage ends with
\* '{'.  The code loses the frame in that case.
C1_Resync ==
    (input.kind = "resync" /\ Finished) => calls = <<input.payload>>

\* C2: a metric that holds a value for an identity implies a registry entry
\* for that identity.  The code sets metrics after the touch without holding
\* anything, so a sweep can remove the entry in between.
C2_MetricImpliesEntry ==
    \A f \in Families : \A l \in DOMAIN Family(f) :
        \E k \in DOMAIN sensors : mac_string(k) = l

\* C3: with the ingestion task idle, a metrics read never gathers a family
\* while an identity that is being expired has some but not all of its four
\* metrics, or has its metrics and its registry entry out of step.  The
\* sweep clears the four families and the entry in separate steps.
C3_ReadSeesAtomicSweep ==
    [][(rpc = "gather" /\ gathered' # gathered /\ SweepClearing /\ ipc = "scan")
        => \A k \in swept \cup Range(expired) :
              \/ k \in DOMAIN sensors /\ AllMetrics(k)
              \/ k \notin DOMAIN sensors /\ NoMetrics(k)]_vars

\* C4: the step that ends a sweep removes the entry of every identity whose
\* four metrics the sweep cleared, so that a touch that happens while the
\* sweep is in progress (it reads the clock at or after the sweep's now)
\* leaves no identity with a refreshed entry and metrics cleared by the
\* sweep.  In the code a touch between the collection and the retain keeps
\* the entry of an identity the sweep clears.
C4_ClearedIsRemoved ==
    [][(spc = "retain" /\ spc' = "tick")
        => \A k \in swept : LastTouch(k) >= now => k \in DOMAIN removed']_vars

\* C5: every entry a sweep removes had a deadline before the sweep's now; an
\* entry with a deadline at or after now is never removed, also when it was
\* created or refreshed after the sweep collected the expired identities.
C5_NeverRemovesLive ==
    \A k \in DOMAIN removed : removed[k] < now

C5_Witness ==
    /\ SweepDone
    /\ \E k \in swept : k \in DOMAIN sensors /\ sensors[k] >= now

\* C6 as stated: for an identity last touched at t0 and left alone since the
\* sweep began, a finished sweep with now >= t0 + 300 has removed the entry
\* and cleared its metrics, and one with now < t0 + 300 has kept the entry.
C6_ExpiryAtOrAfter ==
    SweepDone =>
        \A k \in DOMAIN touches \ disturbed :
            /\ LastTouch(k) + TTL <= now => (k \notin DOMAIN sensors /\ NoMetrics(k))
            /\ now < LastTouch(k) + TTL => k \in DOMAIN sensors

\* C6 amended: for an identity last touched at t0 and left alone since the
\* sweep began, the sweep removes the entry only if now > t0 + 300 and then
\* has cleared all four metrics; an entry that is left has now <= t0 + 300.
C6_ExpiryStrictlyAfter ==
    SweepDone =>
        \A k \in DOMAIN touches \ disturbed :
            /\ k \in DOMAIN removed =>
                  (LastTouch(k) + TTL < now /\ k \in swept /\ NoMetrics(k))
            /\ k \in DOMAIN sensors => now <= LastTouch(k) + TTL

C6_Witness ==
    /\ SweepDone
    /\ \E k \in DOMAIN removed \ disturbed : k \in swept /\ NoMetrics(k)

\* C7: the deadline of an entry is the instant read by the most recent touch
\* of its identity plus 300 seconds (once that touch has been applied), and
\* a deadline never decreases.
C7_Deadline ==
    /\ [](\A k \in DOMAIN sensors :
            ~(ipc \in {"lock", "touch"} /\ mac = k)
                => sensors[k] = LastTouch(k) + TTL)
    /\ [][\A k \in DOMAIN sensors \cap DOMAIN sensors' : sensors'[k] >= sensors[k]]_vars

C7_Witness ==
    \E k \in DOMAIN sensors :
        /\ Len(touches[k]) = 2
        /\ touches[k][1] < touches[k][2]
        /\ ipc = "temp"
        /\ sensors[k] = touches[k][2] + TTL

\* C8: the buffer never holds more than 500 bytes, a push that fills it to
\* 500 bytes sends the extractor to Interstitial, and no buffer of a frame
\* whose payload exceeds 500 bytes reaches got_message.
C8_LengthCap ==
    /\ [](/\ Len(msg) <= MsgCap
          /\ Len(msg) = MsgCap => state \in {"Interstitial", "Open1", "Open2"}
          /\ \A i \in DOMAIN calls : Len(calls[i]) <= MsgCap
          /\ (input.kind = "cap" /\ Len(input.payload) > MsgCap)
                => \A i \in DOMAIN calls : calls[i] = <<10>>)
    /\ [][(Len(msg') = MsgCap /\ Len(msg) < MsgCap) => state' = "Interstitial"]_vars

C8_Witness ==
    /\ input.kind = "cap"
    /\ Len(input.payload) > MsgCap
    /\ Finished
    /\ calls = <<(<<10>>)>>

\* C9 as stated: the decoder works on a buffer only if the payload after the
\* checksum field has at least 30 bytes and starts with the format tag.
C9_PayloadAtLeast30 ==
    Decoding => (Len(msg) - 4 >= 30 /\ Slice(msg, 4, 7) = Format5)

\* C9 amended: the decoder works on a buffer only if its checksum matches,
\* the whole buffer has at least 30 bytes (a payload of at least 26) and the
\* payload starts with the format tag; any other buffer changes nothing.
C9_BufferAtLeast30 ==
    Decoding => (msg \in Validated /\ Len(msg) - 4 >= 26 /\ Slice(msg, 4, 7) = Format5)

C9_Witness ==
    /\ ipc = "scan" /\ Len(calls) = 1
    /\ calls[1] \in {Truncated, OtherFormat}
    /\ sensors = Empty /\ touches = Empty
    /\ \A f \in Families : Family(f) = Empty

\* C10: a buffer with the all-ones identity is dropped before the registry
\* or a metric is touched, and neither ever holds the all-ones identity.
C10_ReservedIdentity ==
    /\ Decoding => (Slice(msg, 24, 30) # NoAddress /\ mac # NoAddress)
    /\ NoAddress \notin DOMAIN sensors
    /\ \A f \in Families : NoAddressLabel \notin DOMAIN Family(f)

C10_Witness ==
    /\ ipc = "scan" /\ calls = <<NoAddressReading>>
    /\ sensors = Empty /\ touches = Empty
    /\ \A f \in Families : Family(f) = Empty

\* the buffers of the decoder model that pass the checksum gate, and those
\* that pass every check
DecodeValidated == {m \in DecodeMessages : ChecksumOk(m)}
DecodeAccepted == {m \in DecodeMessages : Accepted(m)}

\* the ingestion task has returned from got_message
Returned == ipc = "scan" /\ calls # <<>>

\* the buffer of the last call of got_message
Handled == calls[Len(calls)]

\* the metric of family g for label l: present with value v, or not present
Holds(g, l, present, v) ==
    IF present THEN l \in DOMAIN g /\ g[l] = v ELSE l \notin DOMAIN g

\* C11: when got_message has returned from an accepted buffer (the buffer of
\* its last call, whatever the scan has put into msg since), each of the
\* four metrics of its identity is cleared if the raw field is the absent sentinel
\* of that quantity (0x8000, 0xFFFF, 0xFFFF, top 11 bits 2047) and holds the
\* scaled value otherwise, whatever the other three fields are; and no step
\* of got_message changes a metric of another identity.
C11_SentinelIndependence ==
    /\ []((Returned /\ Handled \in DecodeAccepted) =>
            LET l == mac_string(Slice(Handled, 24, 30))
            IN  /\ Holds(ROOM_TEMPERATURE, l, Slice(Handled, 7, 9) # <<128, 0>>,
                         i16_from_be_bytes(Slice(Handled, 7, 9)) * 5)
                /\ Holds(HUMIDITY, l, Slice(Handled, 9, 11) # <<255, 255>>,
                         u16_from_be_bytes(Slice(Handled, 9, 11)) * 25)
                /\ Holds(PRESSURE, l, Slice(Handled, 11, 13) # <<255, 255>>,
                         u16_from_be_bytes(Slice(Handled, 11, 13)) + 50000)
                /\ Holds(BATTERY, l,
                         u16_from_be_bytes(Slice(Handled, 19, 21)) \div 32 # 2047,
                         (u16_from_be_bytes(Slice(Handled, 19, 21)) \div 32) + 1600))
    /\ [][\A f \in Families : \A l \in DOMAIN Family(f) \cup DOMAIN Family(f)' :
            l # mac_string(mac') =>
                /\ l \in DOMAIN Family(f) \cap DOMAIN Family(f)'
                /\ Family(f)'[l] = Family(f)[l]]_vars

\* scenario B after scenario A, with a reading of the other sensor around
C11_Witness ==
    /\ Returned /\ Handled = AbsentTemp
    /\ Len(touches[MacA]) = 2
    /\ <<"1", ":", "2", ":", "3", ":", "4", ":", "5", ":", "6">>
            \notin DOMAIN ROOM_TEMPERATURE
    /\ HUMIDITY[mac_string(MacA)] = 250000
    /\ PRESSURE[mac_string(MacA)] = 100000
    /\ BATTERY[mac_string(MacA)] = 1688

\* C12: a buffer under 4 bytes, or one whose first 4 bytes differ from the
\* CRC-32 of the rest, never reaches the decoder; got_message returns from
\* it to the scan with the registry and the metrics as they were.
C12_ChecksumGate ==
    /\ [](Decoding => msg \in DecodeValidated)
    /\ [][(ipc = "check" /\ ipc' # ipc /\ msg \notin DecodeValidated)
            => /\ ipc' = "scan" /\ state' = "Interstitial"
               /\ UNCHANGED <<sensors, metricVars>>]_vars

C12_Witness ==
    /\ Returned /\ Handled \in {Short, Corrupt} /\ Handled \notin DecodeValidated
    /\ Len(calls) = 2
    /\ DOMAIN sensors = {MacA} /\ AllMetrics(MacA)

\* the positions at which a task updates a metric, or works on the registry
IngestAtMetric == ipc \in {"temp", "hum", "pres", "bat"}
SweepAtMetric == spc \in {"temp", "hum", "pres", "bat"}
SweepInRegistry == spc \in {"collect", "retain"}

\* C13: a task holds the registry mutex exactly while it is at a registry
\* map operation (the touch; the collection and the retain of the sweep),
\* never while it sets or clears a metric, the two tasks are never at a map
\* operation together, and every step that changes the registry or reads it
\* for the sweep is taken by the holder of the mutex.
C13_LockDiscipline ==
    /\ [](/\ lock = "ingest" <=> ipc = "touch"
          /\ lock = "sweep" <=> SweepInRegistry
          /\ IngestAtMetric => lock # "ingest"
          /\ SweepAtMetric => lock # "sweep"
          /\ ~(ipc = "touch" /\ SweepInRegistry))
    /\ [][/\ (sensors' # sensors /\ ipc' # ipc) => lock = "ingest"
          /\ (sensors' # sensors /\ spc' # spc) => lock = "sweep"
          /\ (spc = "collect" /\ spc' # spc) => lock = "sweep"
          /\ (metricVars' # metricVars /\ ipc' # ipc) => lock # "ingest"
          /\ (metricVars' # metricVars /\ spc' # spc) => lock # "sweep"]_vars

\* the ingestion task has set a metric and is setting the next one while the
\* sweep holds the mutex
C13_Witness == IngestAtMetric /\ lock = "sweep" /\ HUMIDITY # Empty

\* the positions of the ingestion loop
IngestPositions == {"discover", "open", "scan", "check", "eof", "sleep"}

\* C14: the ingestion loop is always at one of its positions; from the end
\* of the stream, and from every failure (which starts the sleep of 10
\* seconds at once), it comes back to the discovery of the device, which it
\* reaches only from that sleep, and it does so again and again.
C14_RetryForever ==
    /\ [](ipc \in IngestPositions)
    /\ (ipc \in {"eof", "sleep"}) ~> (ipc = "discover")
    /\ []<>(ipc = "discover")
    /\ [][/\ ipc' = "discover" => (ipc = "sleep" /\ backoff = BackoffSecs)
          /\ (ipc' = "sleep" /\ ipc # "sleep")
                => (backoff' = BackoffSecs /\ ipc \in {"discover", "open", "scan", "eof"})]_vars

\* back at the discovery after a stream that was read to its end
C14_Witness ==
    /\ ipc = "discover"
    /\ stream = FrameOf(Short) /\ pos = Len(stream)
    /\ calls = <<Short>>

\* the stream has been read to its end (no buffer follows), and the clock
\* has passed the deadline that the last touch of k computed
Unrefreshed(k) ==
    /\ ipc = "eof"
    /\ k \in DOMAIN touches
    /\ time > LastTouch(k) + TTL

Gone(k) == k \notin DOMAIN sensors /\ NoMetrics(k)

\* C15: once the readings of an identity have stopped and the clock has
\* passed its last deadline, the system comes to a state, and stays in it,
\* where the identity has no registry entry and none of its four metrics.
\* In the code a touch computed before the sweep read the clock and applied
\* after the sweep collected leaves the metrics without an entry for good.
C15_ExpiryLiveness ==
    [](Unrefreshed(MacA) => <>[]Gone(MacA))

\* the four metrics of the identity of buffer m are as m leaves them
QuantitiesDone(m) ==
    LET l == mac_string(Slice(m, 24, 30))
    IN  /\ Holds(ROOM_TEMPERATURE, l, ~TempAbsent(m), TempValue(m))
        /\ Holds(HUMIDITY, l, ~HumidityAbsent(m), HumidityValue(m))
        /\ Holds(PRESSURE, l, ~PressureAbsent(m), PressureValue(m))
        /\ Holds(BATTERY, l, ~BatteryAbsent(m), BatteryValue(m))

\* C16 as stated: when got_message touches the registry, the four
\* quantities of the buffer have been set or cleared.
C16_TouchAfterMetrics ==
    [][(ipc = "touch" /\ ipc' # ipc) => QuantitiesDone(msg)]_vars

\* C16 amended: got_message touches the registry before it sets or clears
\* any of the four quantities: no metric changes from the checks to the
\* touch, the touch leads to the first quantity, and while the quantities
\* are updated the registry holds the entry with the deadline of this call.
C16_TouchBeforeMetrics ==
    /\ [](IngestAtMetric =>
            /\ mac \in DOMAIN sensors
            /\ sensors[mac] = expiry
            /\ expiry = LastTouch(mac) + TTL)
    /\ [][/\ (ipc \in {"check", "lock", "touch"} /\ ipc' # ipc) => UNCHANGED metricVars
          /\ (sensors' # sensors) => (ipc = "touch" /\ ipc' = "temp")]_vars

\* a first reading, after the clock has advanced: the entry is there and no
\* metric yet
C16_Witness ==
    /\ ipc = "temp" /\ Len(calls) = 1 /\ msg = ReadingA
    /\ time > 0
    /\ sensors = [k \in {MacA} |-> expiry]
    /\ \A f \in Families : Family(f) = Empty

\* C17 as stated: a well-formed frame of up to 500 decoded bytes, 500
\* included, is handed to got_message (followed here by a short frame).
C17_ExactCapEmitted ==
    (input.kind = "cap" /\ Len(input.payload) <= MsgCap /\ Finished)
        => calls = <<input.payload, <<10>>>>

\* C17 amended: a well-formed frame is handed to got_message if its decoded
\* payload has at most 499 bytes; the frame is aborted when the buffer
\* reaches 500 bytes, so a frame of exactly 500 bytes, or more, is not
\* handed over, and the frame that follows it is.
C17_CapAt500 ==
    (input.kind = "cap" /\ Finished)
        => calls = (IF Len(input.payload) < MsgCap
                    THEN <<input.payload, <<10>>>>
                    ELSE <<(<<10>>)>>)

C17_Witness ==
    /\ input.kind = "cap"
    /\ Len(input.payload) = MsgCap
    /\ Finished
    /\ Len(msg) = 1 /\ Len(calls) = 1

\* the index in stream of the byte the scan is about to take
Cursor == pos - avail + 1

IsOpenTriple(i) ==
    stream[i] = OpenByte /\ stream[i + 1] = OpenByte /\ stream[i + 2] = OpenByte

\* the start of the last start-marker triple that ends before index p
LastOpen(p) ==
    CHOOSE i \in 1..(p - 3) :
        /\ IsOpenTriple(i)
        /\ \A j \in (i + 1)..(p - 3) : ~IsOpenTriple(j)

\* the bytes that the hex digits h spell, two digits a byte
Decoded(h) ==
    [j \in 1..(Len(h) \div 2) |-> PackNibbles(nibble(h[2 * j - 1]), nibble(h[2 * j]))]

\* C18: a buffer is handed to got_message only at the third byte of an end
\* marker, and it is exactly what the hex-digit pairs between the last start
\* marker and that end marker spell; nothing of a frame that was aborted is
\* in a buffer handed over later (the aborted frames here hold 0xEE, the
\* frames over the cap 0xA7, and the frame that follows is handed over
\* whole); when got_message returns the extractor is in Interstitial.
C18_NoPartialEmission ==
    /\ [][calls' # calls =>
            /\ Len(calls') = Len(calls) + 1
            /\ stream[Cursor] = CloseByte
            /\ stream[Cursor - 1] = CloseByte
            /\ stream[Cursor - 2] = CloseByte
            /\ \E i \in 1..(Cursor - 3) : IsOpenTriple(i)
            /\ LET h == SubSeq(stream, LastOpen(Cursor) + 3, Cursor - 3)
               IN  /\ Len(h) % 2 = 0
                   /\ \A j \in DOMAIN h : nibble(h[j]) # None
                   /\ calls'[Len(calls')] = Decoded(h)]_vars
    /\ [][(ipc # "scan" /\ ipc' = "scan") => state' = "Interstitial"]_vars
    /\ [](input.kind \in {"abort", "cap"} =>
            /\ \A i \in DOMAIN calls : \A j \in DOMAIN calls[i] :
                    calls[i][j] \notin {238, 167} \/ calls[i] = input.payload
            /\ (input.kind = "abort" /\ Finished) => calls = <<input.payload>>)

\* an aborted frame whose byte is still in the buffer when the next frame
\* begins, and the next frame handed over alone
C18_Witness ==
    /\ input.kind = "abort"
    /\ Finished
    /\ calls = <<(<<10, 191>>)>>
    /\ stream[7] = CloseByte /\ stream[8] = 120

\* what each stream gives when it is read as one chunk
Expected == [i \in FrameInputs |-> OneChunk(StreamOf(i))]

\* C19: whatever the chunks the reads return, the buffers handed to
\* got_message for a stream are those of the stream read as a single chunk.
C19_ChunkIndependence ==
    /\ \A i \in DOMAIN calls : calls[i] = Expected[input][i]
    /\ Len(calls) <= Len(Expected[input])
    /\ Finished => calls = Expected[input]

\* a read has returned a chunk that ends between the two digits of the
\* second byte of a frame: the state, the high nibble and the first byte are
\* carried over to the next read
C19_Witness ==
    /\ input.kind = "abort"
    /\ ipc = "scan" /\ avail = 0 /\ pos < Len(stream)
    /\ state = "Nibble2" /\ n = 11 /\ msg = <<10>>

\* C20: every entry that the retain of a sweep removes belongs to an
\* identity that the same sweep collected and cleared in its four metrics
\* before.  In the code a touch applied between the collection and the
\* retain can insert an entry whose deadline, read from the clock before a
\* delay, is already before the sweep's now; the retain removes it and no
\* clear was issued for it.
C20_RemovedWasCleared ==
    \A k \in DOMAIN removed : k \in swept

====
